---- MODULE Spec2Model ----
(***************************************************************************)
(* Model of MWK-cellular-Calc.py: the NetworkCalculator class (range       *)
(* tables, per-standard frequency formulas, lookups) and the Calculate     *)
(* handler of CellularCalculatorGUI.                                       *)
(*                                                                         *)
(* Numbers.  The source computes frequencies as Python floats in MHz and   *)
(* displays them with three decimals.  Here every frequency is an integer  *)
(* number of kHz: the model value of a source float x is round(x * 1000),  *)
(* so 880.2 is 880200 and the step 0.2 is 200.  Binary rounding error of   *)
(* the floats (below 1e-9 MHz) is not represented.  The one division of    *)
(* the source, by 2 in calculate_center_frequency, is kept exact: its      *)
(* result is a number of kHz plus possibly one half.                       *)
(*                                                                         *)
(* Text.  A Python str is a sequence of characters, except that a literal  *)
(* part of an f-string is kept as one element.  A printable ASCII          *)
(* character is the one-character string; any other character is the      *)
(* string "U+" followed by its code point in at least four upper-case hex  *)
(* digits ("U+FF13", "U+000B"); tab, newline, carriage return and form     *)
(* feed may also be written "\t", "\n", "\r", "\f".  The grave accent,    *)
(* which a TLA+ string cannot hold, is "U+0060".                           *)
(***************************************************************************)
EXTENDS Integers, Sequences, FiniteSets, TLC

\* ------------------------------------------------------------------ bounds
NegDepth == 6
MaxChannel == 10700

\* number of kHz in one MHz: the three decimals of the float display
KHz == 1000

\* Python's None
None == "None"

\* ------------------------------------------------------------- text helpers
Min(S) == CHOOSE x \in S : \A y \in S : x <= y

Digits == <<"0", "1", "2", "3", "4", "5", "6", "7", "8", "9">>

\* the Unicode decimal digits int() accepts, one row per script, zero first
DigitBlocks ==
    << <<"0", "1", "2", "3", "4", "5", "6", "7", "8", "9">>,
       <<"U+0660", "U+0661", "U+0662", "U+0663", "U+0664", "U+0665", "U+0666", "U+0667", "U+0668", "U+0669">>,
       <<"U+06F0", "U+06F1", "U+06F2", "U+06F3", "U+06F4", "U+06F5", "U+06F6", "U+06F7", "U+06F8", "U+06F9">>,
       <<"U+07C0", "U+07C1", "U+07C2", "U+07C3", "U+07C4", "U+07C5", "U+07C6", "U+07C7", "U+07C8", "U+07C9">>,
       <<"U+0966", "U+0967", "U+0968", "U+0969", "U+096A", "U+096B", "U+096C", "U+096D", "U+096E", "U+096F">>,
       <<"U+09E6", "U+09E7", "U+09E8", "U+09E9", "U+09EA", "U+09EB", "U+09EC", "U+09ED", "U+09EE", "U+09EF">>,
       <<"U+0A66", "U+0A67", "U+0A68", "U+0A69", "U+0A6A", "U+0A6B", "U+0A6C", "U+0A6D", "U+0A6E", "U+0A6F">>,
       <<"U+0AE6", "U+0AE7", "U+0AE8", "U+0AE9", "U+0AEA", "U+0AEB", "U+0AEC", "U+0AED", "U+0AEE", "U+0AEF">>,
       <<"U+0B66", "U+0B67", "U+0B68", "U+0B69", "U+0B6A", "U+0B6B", "U+0B6C", "U+0B6D", "U+0B6E", "U+0B6F">>,
       <<"U+0BE6", "U+0BE7", "U+0BE8", "U+0BE9", "U+0BEA", "U+0BEB", "U+0BEC", "U+0BED", "U+0BEE", "U+0BEF">>,
       <<"U+0C66", "U+0C67", "U+0C68", "U+0C69", "U+0C6A", "U+0C6B", "U+0C6C", "U+0C6D", "U+0C6E", "U+0C6F">>,
       <<"U+0CE6", "U+0CE7", "U+0CE8", "U+0CE9", "U+0CEA", "U+0CEB", "U+0CEC", "U+0CED", "U+0CEE", "U+0CEF">>,
       <<"U+0D66", "U+0D67", "U+0D68", "U+0D69", "U+0D6A", "U+0D6B", "U+0D6C", "U+0D6D", "U+0D6E", "U+0D6F">>,
       <<"U+0DE6", "U+0DE7", "U+0DE8", "U+0DE9", "U+0DEA", "U+0DEB", "U+0DEC", "U+0DED", "U+0DEE", "U+0DEF">>,
       <<"U+0E50", "U+0E51", "U+0E52", "U+0E53", "U+0E54", "U+0E55", "U+0E56", "U+0E57", "U+0E58", "U+0E59">>,
       <<"U+0ED0", "U+0ED1", "U+0ED2", "U+0ED3", "U+0ED4", "U+0ED5", "U+0ED6", "U+0ED7", "U+0ED8", "U+0ED9">>,
       <<"U+0F20", "U+0F21", "U+0F22", "U+0F23", "U+0F24", "U+0F25", "U+0F26", "U+0F27", "U+0F28", "U+0F29">>,
       <<"U+1040", "U+1041", "U+1042", "U+1043", "U+1044", "U+1045", "U+1046", "U+1047", "U+1048", "U+1049">>,
       <<"U+1090", "U+1091", "U+1092", "U+1093", "U+1094", "U+1095", "U+1096", "U+1097", "U+1098", "U+1099">>,
       <<"U+17E0", "U+17E1", "U+17E2", "U+17E3", "U+17E4", "U+17E5", "U+17E6", "U+17E7", "U+17E8", "U+17E9">>,
       <<"U+1810", "U+1811", "U+1812", "U+1813", "U+1814", "U+1815", "U+1816", "U+1817", "U+1818", "U+1819">>,
       <<"U+1946", "U+1947", "U+1948", "U+1949", "U+194A", "U+194B", "U+194C", "U+194D", "U+194E", "U+194F">>,
       <<"U+19D0", "U+19D1", "U+19D2", "U+19D3", "U+19D4", "U+19D5", "U+19D6", "U+19D7", "U+19D8", "U+19D9">>,
       <<"U+1A80", "U+1A81", "U+1A82", "U+1A83", "U+1A84", "U+1A85", "U+1A86", "U+1A87", "U+1A88", "U+1A89">>,
       <<"U+1A90", "U+1A91", "U+1A92", "U+1A93", "U+1A94", "U+1A95", "U+1A96", "U+1A97", "U+1A98", "U+1A99">>,
       <<"U+1B50", "U+1B51", "U+1B52", "U+1B53", "U+1B54", "U+1B55", "U+1B56", "U+1B57", "U+1B58", "U+1B59">>,
       <<"U+1BB0", "U+1BB1", "U+1BB2", "U+1BB3", "U+1BB4", "U+1BB5", "U+1BB6", "U+1BB7", "U+1BB8", "U+1BB9">>,
       <<"U+1C40", "U+1C41", "U+1C42", "U+1C43", "U+1C44", "U+1C45", "U+1C46", "U+1C47", "U+1C48", "U+1C49">>,
       <<"U+1C50", "U+1C51", "U+1C52", "U+1C53", "U+1C54", "U+1C55", "U+1C56", "U+1C57", "U+1C58", "U+1C59">>,
       <<"U+A620", "U+A621", "U+A622", "U+A623", "U+A624", "U+A625", "U+A626", "U+A627", "U+A628", "U+A629">>,
       <<"U+A8D0", "U+A8D1", "U+A8D2", "U+A8D3", "U+A8D4", "U+A8D5", "U+A8D6", "U+A8D7", "U+A8D8", "U+A8D9">>,
       <<"U+A900", "U+A901", "U+A902", "U+A903", "U+A904", "U+A905", "U+A906", "U+A907", "U+A908", "U+A909">>,
       <<"U+A9D0", "U+A9D1", "U+A9D2", "U+A9D3", "U+A9D4", "U+A9D5", "U+A9D6", "U+A9D7", "U+A9D8", "U+A9D9">>,
       <<"U+A9F0", "U+A9F1", "U+A9F2", "U+A9F3", "U+A9F4", "U+A9F5", "U+A9F6", "U+A9F7", "U+A9F8", "U+A9F9">>,
       <<"U+AA50", "U+AA51", "U+AA52", "U+AA53", "U+AA54", "U+AA55", "U+AA56", "U+AA57", "U+AA58", "U+AA59">>,
       <<"U+ABF0", "U+ABF1", "U+ABF2", "U+ABF3", "U+ABF4", "U+ABF5", "U+ABF6", "U+ABF7", "U+ABF8", "U+ABF9">>,
       <<"U+FF10", "U+FF11", "U+FF12", "U+FF13", "U+FF14", "U+FF15", "U+FF16", "U+FF17", "U+FF18", "U+FF19">>,
       <<"U+104A0", "U+104A1", "U+104A2", "U+104A3", "U+104A4", "U+104A5", "U+104A6", "U+104A7", "U+104A8", "U+104A9">>,
       <<"U+10D30", "U+10D31", "U+10D32", "U+10D33", "U+10D34", "U+10D35", "U+10D36", "U+10D37", "U+10D38", "U+10D39">>,
       <<"U+11066", "U+11067", "U+11068", "U+11069", "U+1106A", "U+1106B", "U+1106C", "U+1106D", "U+1106E", "U+1106F">>,
       <<"U+110F0", "U+110F1", "U+110F2", "U+110F3", "U+110F4", "U+110F5", "U+110F6", "U+110F7", "U+110F8", "U+110F9">>,
       <<"U+11136", "U+11137", "U+11138", "U+11139", "U+1113A", "U+1113B", "U+1113C", "U+1113D", "U+1113E", "U+1113F">>,
       <<"U+111D0", "U+111D1", "U+111D2", "U+111D3", "U+111D4", "U+111D5", "U+111D6", "U+111D7", "U+111D8", "U+111D9">>,
       <<"U+112F0", "U+112F1", "U+112F2", "U+112F3", "U+112F4", "U+112F5", "U+112F6", "U+112F7", "U+112F8", "U+112F9">>,
       <<"U+11450", "U+11451", "U+11452", "U+11453", "U+11454", "U+11455", "U+11456", "U+11457", "U+11458", "U+11459">>,
       <<"U+114D0", "U+114D1", "U+114D2", "U+114D3", "U+114D4", "U+114D5", "U+114D6", "U+114D7", "U+114D8", "U+114D9">>,
       <<"U+11650", "U+11651", "U+11652", "U+11653", "U+11654", "U+11655", "U+11656", "U+11657", "U+11658", "U+11659">>,
       <<"U+116C0", "U+116C1", "U+116C2", "U+116C3", "U+116C4", "U+116C5", "U+116C6", "U+116C7", "U+116C8", "U+116C9">>,
       <<"U+11730", "U+11731", "U+11732", "U+11733", "U+11734", "U+11735", "U+11736", "U+11737", "U+11738", "U+11739">>,
       <<"U+118E0", "U+118E1", "U+118E2", "U+118E3", "U+118E4", "U+118E5", "U+118E6", "U+118E7", "U+118E8", "U+118E9">>,
       <<"U+11950", "U+11951", "U+11952", "U+11953", "U+11954", "U+11955", "U+11956", "U+11957", "U+11958", "U+11959">>,
       <<"U+11C50", "U+11C51", "U+11C52", "U+11C53", "U+11C54", "U+11C55", "U+11C56", "U+11C57", "U+11C58", "U+11C59">>,
       <<"U+11D50", "U+11D51", "U+11D52", "U+11D53", "U+11D54", "U+11D55", "U+11D56", "U+11D57", "U+11D58", "U+11D59">>,
       <<"U+11DA0", "U+11DA1", "U+11DA2", "U+11DA3", "U+11DA4", "U+11DA5", "U+11DA6", "U+11DA7", "U+11DA8", "U+11DA9">>,
       <<"U+16A60", "U+16A61", "U+16A62", "U+16A63", "U+16A64", "U+16A65", "U+16A66", "U+16A67", "U+16A68", "U+16A69">>,
       <<"U+16AC0", "U+16AC1", "U+16AC2", "U+16AC3", "U+16AC4", "U+16AC5", "U+16AC6", "U+16AC7", "U+16AC8", "U+16AC9">>,
       <<"U+16B50", "U+16B51", "U+16B52", "U+16B53", "U+16B54", "U+16B55", "U+16B56", "U+16B57", "U+16B58", "U+16B59">>,
       <<"U+1D7CE", "U+1D7CF", "U+1D7D0", "U+1D7D1", "U+1D7D2", "U+1D7D3", "U+1D7D4", "U+1D7D5", "U+1D7D6", "U+1D7D7">>,
       <<"U+1D7D8", "U+1D7D9", "U+1D7DA", "U+1D7DB", "U+1D7DC", "U+1D7DD", "U+1D7DE", "U+1D7DF", "U+1D7E0", "U+1D7E1">>,
       <<"U+1D7E2", "U+1D7E3", "U+1D7E4", "U+1D7E5", "U+1D7E6", "U+1D7E7", "U+1D7E8", "U+1D7E9", "U+1D7EA", "U+1D7EB">>,
       <<"U+1D7EC", "U+1D7ED", "U+1D7EE", "U+1D7EF", "U+1D7F0", "U+1D7F1", "U+1D7F2", "U+1D7F3", "U+1D7F4", "U+1D7F5">>,
       <<"U+1D7F6", "U+1D7F7", "U+1D7F8", "U+1D7F9", "U+1D7FA", "U+1D7FB", "U+1D7FC", "U+1D7FD", "U+1D7FE", "U+1D7FF">>,
       <<"U+1E140", "U+1E141", "U+1E142", "U+1E143", "U+1E144", "U+1E145", "U+1E146", "U+1E147", "U+1E148", "U+1E149">>,
       <<"U+1E2F0", "U+1E2F1", "U+1E2F2", "U+1E2F3", "U+1E2F4", "U+1E2F5", "U+1E2F6", "U+1E2F7", "U+1E2F8", "U+1E2F9">>,
       <<"U+1E950", "U+1E951", "U+1E952", "U+1E953", "U+1E954", "U+1E955", "U+1E956", "U+1E957", "U+1E958", "U+1E959">>,
       <<"U+1FBF0", "U+1FBF1", "U+1FBF2", "U+1FBF3", "U+1FBF4", "U+1FBF5", "U+1FBF6", "U+1FBF7", "U+1FBF8", "U+1FBF9">> >>

DigitChars == {DigitBlocks[b][i] : b \in 1..Len(DigitBlocks), i \in 1..10}

DigitValues ==
    [ch \in DigitChars |->
        (CHOOSE i \in 1..10 : \E b \in 1..Len(DigitBlocks) : DigitBlocks[b][i] = ch) - 1]

DigitValue(ch) == DigitValues[ch]

\* str(n) for a non-negative int
RECURSIVE NatText(_)
NatText(n) ==
    IF n < 10 THEN <<Digits[n + 1]>>
    ELSE NatText(n \div 10) \o <<Digits[(n % 10) + 1]>>

\* str(n) for an int, as f"{arfcn}" formats it
IntText(n) == IF n < 0 THEN <<"-">> \o NatText(0 - n) ELSE NatText(n)

\* the three decimals of f"{x:.3f}"
Pad3(n) == <<Digits[(n \div 100) + 1], Digits[((n \div 10) % 10) + 1], Digits[(n % 10) + 1]>>

\* f"{x:.3f}" of a non-negative float x, given in kHz
Format3f(khz) == NatText(khz \div KHz) \o <<".">> \o Pad3(khz % KHz)

\* the decimals of str(x): no trailing zeros, at least one digit
RECURSIVE TrimZeros(_)
TrimZeros(ds) ==
    IF Len(ds) > 1 /\ ds[Len(ds)] = "0" THEN TrimZeros(SubSeq(ds, 1, Len(ds) - 1))
    ELSE ds

\* str(x) of a non-negative float x, given in kHz, as f"{x}" formats it
FloatStr(khz) == NatText(khz \div KHz) \o <<".">> \o TrimZeros(Pad3(khz % KHz))

\* ------------------------------------------------------------ class tables
\* variant: LTE 1800 declared with the band's EARFCN range, which overlaps
NETWORK_RANGES_overlap ==
    << [network |-> "GSM 900",   ranges |-> << <<1, 124>>, <<128, 251>> >>],
       [network |-> "GSM 1800",  ranges |-> << <<512, 885>>, <<1024, 1885>> >>],
       [network |-> "UMTS 2100", ranges |-> << <<10562, 10687>> >>],
       [network |-> "LTE 1800",  ranges |-> << <<1200, 1949>> >>] >>

\* dict in declaration order: detect_network iterates .items()
NETWORK_RANGES ==
    << [network |-> "GSM 900",   ranges |-> << <<1, 124>>, <<128, 251>> >>],
       [network |-> "GSM 1800",  ranges |-> << <<512, 885>>, <<1024, 1885>> >>],
       [network |-> "UMTS 2100", ranges |-> << <<10562, 10687>> >>],
       [network |-> "LTE 1800",  ranges |-> << <<300, 379>> >>] >>

\* MHz in the source, kHz here
CHANNEL_SPACING ==
    [n \in {"GSM 900", "GSM 1800", "UMTS 2100", "LTE 1800"} |->
        CASE n = "GSM 900"   -> 200
          [] n = "GSM 1800"  -> 200
          [] n = "UMTS 2100" -> 5000
          [] n = "LTE 1800"  -> 100]

CapabilityKeys == {"Technology", "Max Data Rate", "Features", "Modulation"}

Capability(tech, rate, features, modulation) ==
    [k \in CapabilityKeys |->
        CASE k = "Technology"    -> tech
          [] k = "Max Data Rate" -> rate
          [] k = "Features"      -> features
          [] k = "Modulation"    -> modulation]

NETWORK_CAPABILITIES ==
    [n \in {"GSM 900", "GSM 1800", "UMTS 2100", "LTE 1800"} |->
        CASE n = "GSM 900"   -> Capability("2G", "115 Kbps (GPRS), 384 Kbps (EDGE)",
                                           "Voice calls, SMS, Basic data", "GMSK, 8PSK (EDGE)")
          [] n = "GSM 1800"  -> Capability("2G", "115 Kbps (GPRS), 384 Kbps (EDGE)",
                                           "Voice calls, SMS, Basic data", "GMSK, 8PSK (EDGE)")
          [] n = "UMTS 2100" -> Capability("3G", "42 Mbps (DC-HSPA+)",
                                           "Video calls, High-speed data, Enhanced security",
                                           "QPSK, 16QAM")
          [] n = "LTE 1800"  -> Capability("4G", "Up to 150 Mbps",
                                           "High-speed data, VoLTE, Low latency",
                                           "QPSK, 16QAM, 64QAM")]

\* the class object passed as cls to the classmethods
NetworkCalculator ==
    [NETWORK_RANGES       |-> NETWORK_RANGES,
     CHANNEL_SPACING      |-> CHANNEL_SPACING,
     NETWORK_CAPABILITIES |-> NETWORK_CAPABILITIES]

\* the empty dict {}
EmptyDict == [k \in {} |-> None]

\* ------------------------------------------------------- outcomes of a call
Return(v) == [kind |-> "return", value |-> v]

Raise(exc, msg) == [kind |-> "raise", value |-> [exc |-> exc, msg |-> msg]]

\* ---------------------------------------------------------- int(text), repr
\* sys.int_info.default_max_str_digits
MaxStrDigits == 4300

\* the characters int() skips at both ends of the text
Whitespace ==
    { "U+0009", "U+000A", "U+000B", "U+000C", "U+000D", " ", "U+0085",
      "U+00A0", "U+1680", "U+2000", "U+2001", "U+2002", "U+2003", "U+2004",
      "U+2005", "U+2006", "U+2007", "U+2008", "U+2009", "U+200A", "U+2028",
      "U+2029", "U+202F", "U+205F", "U+3000", "\t", "\n", "\f", "\r" }

\* index of the first character that is not skipped, Len(s) + 1 if none
FirstKept(s) ==
    LET kept == {i \in 1..Len(s) : s[i] \notin Whitespace}
    IN  IF kept = {} THEN Len(s) + 1 ELSE Min(kept)

Reversed(s) == [i \in 1..Len(s) |-> s[Len(s) + 1 - i]]

LStrip(s) == SubSeq(s, FirstKept(s), Len(s))

RStrip(s) == SubSeq(s, 1, Len(s) + 1 - FirstKept(Reversed(s)))

Strip(s) == RStrip(LStrip(s))

HasSign(t) == t # <<>> /\ t[1] \in {"+", "-"}

\* a stripped text after its optional sign
LiteralBody(t) == IF HasSign(t) THEN Tail(t) ELSE t

\* what the digit scan of int() runs over
RunChars == DigitChars \cup {"_"}

\* length of the leading run of digits and underscores
DigitRun(body) ==
    LET other == {i \in 1..Len(body) : body[i] \notin RunChars}
    IN  IF other = {} THEN Len(body) ELSE Min(other) - 1

\* the run is not empty, has no underscore at either end and no two in a row
WellFormedRun(body, run) ==
    /\ run >= 1
    /\ body[1] # "_"
    /\ body[run] # "_"
    /\ \A i \in 1..(run - 1) : ~(body[i] = "_" /\ body[i + 1] = "_")

DigitCount(body, run) == Cardinality({i \in 1..run : body[i] # "_"})

\* the digits from the first non-zero one on: leading zeros add nothing
Significant(body) ==
    LET nonzero == {i \in 1..Len(body) : body[i] # "_" /\ DigitValue(body[i]) # 0}
    IN  IF nonzero = {} THEN <<>> ELSE SubSeq(body, Min(nonzero), Len(body))

RECURSIVE DigitsValue(_, _)
DigitsValue(body, acc) ==
    IF body = <<>> THEN acc
    ELSE IF Head(body) = "_" THEN DigitsValue(Tail(body), acc)
    ELSE DigitsValue(Tail(body), acc * 10 + DigitValue(Head(body)))

\* the printable ASCII characters, from U+0020 to U+007E, in code point order
AsciiChars ==
    << " ", "!", "\"", "#", "$", "%", "&", "'", "(", ")", "*", "+",
       ",", "-", ".", "/", "0", "1", "2", "3", "4", "5", "6", "7",
       "8", "9", ":", ";", "<", "=", ">", "?", "@", "A", "B", "C",
       "D", "E", "F", "G", "H", "I", "J", "K", "L", "M", "N", "O",
       "P", "Q", "R", "S", "T", "U", "V", "W", "X", "Y", "Z", "[",
       "\\", "]", "^", "_", "U+0060", "a", "b", "c", "d", "e", "f", "g",
       "h", "i", "j", "k", "l", "m", "n", "o", "p", "q", "r", "s",
       "t", "u", "v", "w", "x", "y", "z", "{", "|", "}", "~" >>

AsciiCodes ==
    [ch \in {AsciiChars[i] : i \in 1..Len(AsciiChars)} |->
        31 + (CHOOSE i \in 1..Len(AsciiChars) : AsciiChars[i] = ch)]

HexValues ==
    [h \in {"0", "1", "2", "3", "4", "5", "6", "7", "8", "9",
            "A", "B", "C", "D", "E", "F"} |->
        IF h \in DOMAIN DigitValues THEN DigitValues[h]
        ELSE CASE h = "A" -> 10 [] h = "B" -> 11 [] h = "C" -> 12
               [] h = "D" -> 13 [] h = "E" -> 14 [] h = "F" -> 15]

\* the number the hex digits from..Len(name) of a character's name spell
RECURSIVE HexNumber(_, _, _)
HexNumber(name, from, acc) ==
    IF from > Len(name) THEN acc
    ELSE HexNumber(name, from + 1, acc * 16 + HexValues[SubSeq(name, from, from)])

\* ord(ch)
CodePoint(ch) ==
    IF ch = "\t" THEN 9
    ELSE IF ch = "\n" THEN 10
    ELSE IF ch = "\f" THEN 12
    ELSE IF ch = "\r" THEN 13
    ELSE IF Len(ch) = 1 THEN AsciiCodes[ch]
    ELSE HexNumber(ch, 3, 0)

\* the code points from U+007F on that str.isprintable() rejects, as
\* closed intervals in ascending order (Unicode 14.0): controls, format
\* characters, surrogates, private use, unassigned, separators
NonPrintable ==
    << <<127, 160>>, <<173, 173>>, <<888, 889>>, <<896, 899>>,
       <<907, 907>>, <<909, 909>>, <<930, 930>>, <<1328, 1328>>,
       <<1367, 1368>>, <<1419, 1420>>, <<1424, 1424>>, <<1480, 1487>>,
       <<1515, 1518>>, <<1525, 1541>>, <<1564, 1564>>, <<1757, 1757>>,
       <<1806, 1807>>, <<1867, 1868>>, <<1970, 1983>>, <<2043, 2044>>,
       <<2094, 2095>>, <<2111, 2111>>, <<2140, 2141>>, <<2143, 2143>>,
       <<2155, 2159>>, <<2191, 2199>>, <<2274, 2274>>, <<2436, 2436>>,
       <<2445, 2446>>, <<2449, 2450>>, <<2473, 2473>>, <<2481, 2481>>,
       <<2483, 2485>>, <<2490, 2491>>, <<2501, 2502>>, <<2505, 2506>>,
       <<2511, 2518>>, <<2520, 2523>>, <<2526, 2526>>, <<2532, 2533>>,
       <<2559, 2560>>, <<2564, 2564>>, <<2571, 2574>>, <<2577, 2578>>,
       <<2601, 2601>>, <<2609, 2609>>, <<2612, 2612>>, <<2615, 2615>>,
       <<2618, 2619>>, <<2621, 2621>>, <<2627, 2630>>, <<2633, 2634>>,
       <<2638, 2640>>, <<2642, 2648>>, <<2653, 2653>>, <<2655, 2661>>,
       <<2679, 2688>>, <<2692, 2692>>, <<2702, 2702>>, <<2706, 2706>>,
       <<2729, 2729>>, <<2737, 2737>>, <<2740, 2740>>, <<2746, 2747>>,
       <<2758, 2758>>, <<2762, 2762>>, <<2766, 2767>>, <<2769, 2783>>,
       <<2788, 2789>>, <<2802, 2808>>, <<2816, 2816>>, <<2820, 2820>>,
       <<2829, 2830>>, <<2833, 2834>>, <<2857, 2857>>, <<2865, 2865>>,
       <<2868, 2868>>, <<2874, 2875>>, <<2885, 2886>>, <<2889, 2890>>,
       <<2894, 2900>>, <<2904, 2907>>, <<2910, 2910>>, <<2916, 2917>>,
       <<2936, 2945>>, <<2948, 2948>>, <<2955, 2957>>, <<2961, 2961>>,
       <<2966, 2968>>, <<2971, 2971>>, <<2973, 2973>>, <<2976, 2978>>,
       <<2981, 2983>>, <<2987, 2989>>, <<3002, 3005>>, <<3011, 3013>>,
       <<3017, 3017>>, <<3022, 3023>>, <<3025, 3030>>, <<3032, 3045>>,
       <<3067, 3071>>, <<3085, 3085>>, <<3089, 3089>>, <<3113, 3113>>,
       <<3130, 3131>>, <<3141, 3141>>, <<3145, 3145>>, <<3150, 3156>>,
       <<3159, 3159>>, <<3163, 3164>>, <<3166, 3167>>, <<3172, 3173>>,
       <<3184, 3190>>, <<3213, 3213>>, <<3217, 3217>>, <<3241, 3241>>,
       <<3252, 3252>>, <<3258, 3259>>, <<3269, 3269>>, <<3273, 3273>>,
       <<3278, 3284>>, <<3287, 3292>>, <<3295, 3295>>, <<3300, 3301>>,
       <<3312, 3312>>, <<3315, 3327>>, <<3341, 3341>>, <<3345, 3345>>,
       <<3397, 3397>>, <<3401, 3401>>, <<3408, 3411>>, <<3428, 3429>>,
       <<3456, 3456>>, <<3460, 3460>>, <<3479, 3481>>, <<3506, 3506>>,
       <<3516, 3516>>, <<3518, 3519>>, <<3527, 3529>>, <<3531, 3534>>,
       <<3541, 3541>>, <<3543, 3543>>, <<3552, 3557>>, <<3568, 3569>>,
       <<3573, 3584>>, <<3643, 3646>>, <<3676, 3712>>, <<3715, 3715>>,
       <<3717, 3717>>, <<3723, 3723>>, <<3748, 3748>>, <<3750, 3750>>,
       <<3774, 3775>>, <<3781, 3781>>, <<3783, 3783>>, <<3790, 3791>>,
       <<3802, 3803>>, <<3808, 3839>>, <<3912, 3912>>, <<3949, 3952>>,
       <<3992, 3992>>, <<4029, 4029>>, <<4045, 4045>>, <<4059, 4095>>,
       <<4294, 4294>>, <<4296, 4300>>, <<4302, 4303>>, <<4681, 4681>>,
       <<4686, 4687>>, <<4695, 4695>>, <<4697, 4697>>, <<4702, 4703>>,
       <<4745, 4745>>, <<4750, 4751>>, <<4785, 4785>>, <<4790, 4791>>,
       <<4799, 4799>>, <<4801, 4801>>, <<4806, 4807>>, <<4823, 4823>>,
       <<4881, 4881>>, <<4886, 4887>>, <<4955, 4956>>, <<4989, 4991>>,
       <<5018, 5023>>, <<5110, 5111>>, <<5118, 5119>>, <<5760, 5760>>,
       <<5789, 5791>>, <<5881, 5887>>, <<5910, 5918>>, <<5943, 5951>>,
       <<5972, 5983>>, <<5997, 5997>>, <<6001, 6001>>, <<6004, 6015>>,
       <<6110, 6111>>, <<6122, 6127>>, <<6138, 6143>>, <<6158, 6158>>,
       <<6170, 6175>>, <<6265, 6271>>, <<6315, 6319>>, <<6390, 6399>>,
       <<6431, 6431>>, <<6444, 6447>>, <<6460, 6463>>, <<6465, 6467>>,
       <<6510, 6511>>, <<6517, 6527>>, <<6572, 6575>>, <<6602, 6607>>,
       <<6619, 6621>>, <<6684, 6685>>, <<6751, 6751>>, <<6781, 6782>>,
       <<6794, 6799>>, <<6810, 6815>>, <<6830, 6831>>, <<6863, 6911>>,
       <<6989, 6991>>, <<7039, 7039>>, <<7156, 7163>>, <<7224, 7226>>,
       <<7242, 7244>>, <<7305, 7311>>, <<7355, 7356>>, <<7368, 7375>>,
       <<7419, 7423>>, <<7958, 7959>>, <<7966, 7967>>, <<8006, 8007>>,
       <<8014, 8015>>, <<8024, 8024>>, <<8026, 8026>>, <<8028, 8028>>,
       <<8030, 8030>>, <<8062, 8063>>, <<8117, 8117>>, <<8133, 8133>>,
       <<8148, 8149>>, <<8156, 8156>>, <<8176, 8177>>, <<8181, 8181>>,
       <<8191, 8207>>, <<8232, 8239>>, <<8287, 8303>>, <<8306, 8307>>,
       <<8335, 8335>>, <<8349, 8351>>, <<8385, 8399>>, <<8433, 8447>>,
       <<8588, 8591>>, <<9255, 9279>>, <<9291, 9311>>, <<11124, 11125>>,
       <<11158, 11158>>, <<11508, 11512>>, <<11558, 11558>>, <<11560, 11564>>,
       <<11566, 11567>>, <<11624, 11630>>, <<11633, 11646>>, <<11671, 11679>>,
       <<11687, 11687>>, <<11695, 11695>>, <<11703, 11703>>, <<11711, 11711>>,
       <<11719, 11719>>, <<11727, 11727>>, <<11735, 11735>>, <<11743, 11743>>,
       <<11870, 11903>>, <<11930, 11930>>, <<12020, 12031>>, <<12246, 12271>>,
       <<12284, 12288>>, <<12352, 12352>>, <<12439, 12440>>, <<12544, 12548>>,
       <<12592, 12592>>, <<12687, 12687>>, <<12772, 12783>>, <<12831, 12831>>,
       <<42125, 42127>>, <<42183, 42191>>, <<42540, 42559>>, <<42744, 42751>>,
       <<42955, 42959>>, <<42962, 42962>>, <<42964, 42964>>, <<42970, 42993>>,
       <<43053, 43055>>, <<43066, 43071>>, <<43128, 43135>>, <<43206, 43213>>,
       <<43226, 43231>>, <<43348, 43358>>, <<43389, 43391>>, <<43470, 43470>>,
       <<43482, 43485>>, <<43519, 43519>>, <<43575, 43583>>, <<43598, 43599>>,
       <<43610, 43611>>, <<43715, 43738>>, <<43767, 43776>>, <<43783, 43784>>,
       <<43791, 43792>>, <<43799, 43807>>, <<43815, 43815>>, <<43823, 43823>>,
       <<43884, 43887>>, <<44014, 44015>>, <<44026, 44031>>, <<55204, 55215>>,
       <<55239, 55242>>, <<55292, 63743>>, <<64110, 64111>>, <<64218, 64255>>,
       <<64263, 64274>>, <<64280, 64284>>, <<64311, 64311>>, <<64317, 64317>>,
       <<64319, 64319>>, <<64322, 64322>>, <<64325, 64325>>, <<64451, 64466>>,
       <<64912, 64913>>, <<64968, 64974>>, <<64976, 65007>>, <<65050, 65055>>,
       <<65107, 65107>>, <<65127, 65127>>, <<65132, 65135>>, <<65141, 65141>>,
       <<65277, 65280>>, <<65471, 65473>>, <<65480, 65481>>, <<65488, 65489>>,
       <<65496, 65497>>, <<65501, 65503>>, <<65511, 65511>>, <<65519, 65531>>,
       <<65534, 65535>>, <<65548, 65548>>, <<65575, 65575>>, <<65595, 65595>>,
       <<65598, 65598>>, <<65614, 65615>>, <<65630, 65663>>, <<65787, 65791>>,
       <<65795, 65798>>, <<65844, 65846>>, <<65935, 65935>>, <<65949, 65951>>,
       <<65953, 65999>>, <<66046, 66175>>, <<66205, 66207>>, <<66257, 66271>>,
       <<66300, 66303>>, <<66340, 66348>>, <<66379, 66383>>, <<66427, 66431>>,
       <<66462, 66462>>, <<66500, 66503>>, <<66518, 66559>>, <<66718, 66719>>,
       <<66730, 66735>>, <<66772, 66775>>, <<66812, 66815>>, <<66856, 66863>>,
       <<66916, 66926>>, <<66939, 66939>>, <<66955, 66955>>, <<66963, 66963>>,
       <<66966, 66966>>, <<66978, 66978>>, <<66994, 66994>>, <<67002, 67002>>,
       <<67005, 67071>>, <<67383, 67391>>, <<67414, 67423>>, <<67432, 67455>>,
       <<67462, 67462>>, <<67505, 67505>>, <<67515, 67583>>, <<67590, 67591>>,
       <<67593, 67593>>, <<67638, 67638>>, <<67641, 67643>>, <<67645, 67646>>,
       <<67670, 67670>>, <<67743, 67750>>, <<67760, 67807>>, <<67827, 67827>>,
       <<67830, 67834>>, <<67868, 67870>>, <<67898, 67902>>, <<67904, 67967>>,
       <<68024, 68027>>, <<68048, 68049>>, <<68100, 68100>>, <<68103, 68107>>,
       <<68116, 68116>>, <<68120, 68120>>, <<68150, 68151>>, <<68155, 68158>>,
       <<68169, 68175>>, <<68185, 68191>>, <<68256, 68287>>, <<68327, 68330>>,
       <<68343, 68351>>, <<68406, 68408>>, <<68438, 68439>>, <<68467, 68471>>,
       <<68498, 68504>>, <<68509, 68520>>, <<68528, 68607>>, <<68681, 68735>>,
       <<68787, 68799>>, <<68851, 68857>>, <<68904, 68911>>, <<68922, 69215>>,
       <<69247, 69247>>, <<69290, 69290>>, <<69294, 69295>>, <<69298, 69375>>,
       <<69416, 69423>>, <<69466, 69487>>, <<69514, 69551>>, <<69580, 69599>>,
       <<69623, 69631>>, <<69710, 69713>>, <<69750, 69758>>, <<69821, 69821>>,
       <<69827, 69839>>, <<69865, 69871>>, <<69882, 69887>>, <<69941, 69941>>,
       <<69960, 69967>>, <<70007, 70015>>, <<70112, 70112>>, <<70133, 70143>>,
       <<70162, 70162>>, <<70207, 70271>>, <<70279, 70279>>, <<70281, 70281>>,
       <<70286, 70286>>, <<70302, 70302>>, <<70314, 70319>>, <<70379, 70383>>,
       <<70394, 70399>>, <<70404, 70404>>, <<70413, 70414>>, <<70417, 70418>>,
       <<70441, 70441>>, <<70449, 70449>>, <<70452, 70452>>, <<70458, 70458>>,
       <<70469, 70470>>, <<70473, 70474>>, <<70478, 70479>>, <<70481, 70486>>,
       <<70488, 70492>>, <<70500, 70501>>, <<70509, 70511>>, <<70517, 70655>>,
       <<70748, 70748>>, <<70754, 70783>>, <<70856, 70863>>, <<70874, 71039>>,
       <<71094, 71095>>, <<71134, 71167>>, <<71237, 71247>>, <<71258, 71263>>,
       <<71277, 71295>>, <<71354, 71359>>, <<71370, 71423>>, <<71451, 71452>>,
       <<71468, 71471>>, <<71495, 71679>>, <<71740, 71839>>, <<71923, 71934>>,
       <<71943, 71944>>, <<71946, 71947>>, <<71956, 71956>>, <<71959, 71959>>,
       <<71990, 71990>>, <<71993, 71994>>, <<72007, 72015>>, <<72026, 72095>>,
       <<72104, 72105>>, <<72152, 72153>>, <<72165, 72191>>, <<72264, 72271>>,
       <<72355, 72367>>, <<72441, 72703>>, <<72713, 72713>>, <<72759, 72759>>,
       <<72774, 72783>>, <<72813, 72815>>, <<72848, 72849>>, <<72872, 72872>>,
       <<72887, 72959>>, <<72967, 72967>>, <<72970, 72970>>, <<73015, 73017>>,
       <<73019, 73019>>, <<73022, 73022>>, <<73032, 73039>>, <<73050, 73055>>,
       <<73062, 73062>>, <<73065, 73065>>, <<73103, 73103>>, <<73106, 73106>>,
       <<73113, 73119>>, <<73130, 73439>>, <<73465, 73647>>, <<73649, 73663>>,
       <<73714, 73726>>, <<74650, 74751>>, <<74863, 74863>>, <<74869, 74879>>,
       <<75076, 77711>>, <<77811, 77823>>, <<78895, 82943>>, <<83527, 92159>>,
       <<92729, 92735>>, <<92767, 92767>>, <<92778, 92781>>, <<92863, 92863>>,
       <<92874, 92879>>, <<92910, 92911>>, <<92918, 92927>>, <<92998, 93007>>,
       <<93018, 93018>>, <<93026, 93026>>, <<93048, 93052>>, <<93072, 93759>>,
       <<93851, 93951>>, <<94027, 94030>>, <<94088, 94094>>, <<94112, 94175>>,
       <<94181, 94191>>, <<94194, 94207>>, <<100344, 100351>>, <<101590, 101631>>,
       <<101641, 110575>>, <<110580, 110580>>, <<110588, 110588>>, <<110591, 110591>>,
       <<110883, 110927>>, <<110931, 110947>>, <<110952, 110959>>, <<111356, 113663>>,
       <<113771, 113775>>, <<113789, 113791>>, <<113801, 113807>>, <<113818, 113819>>,
       <<113824, 118527>>, <<118574, 118575>>, <<118599, 118607>>, <<118724, 118783>>,
       <<119030, 119039>>, <<119079, 119080>>, <<119155, 119162>>, <<119275, 119295>>,
       <<119366, 119519>>, <<119540, 119551>>, <<119639, 119647>>, <<119673, 119807>>,
       <<119893, 119893>>, <<119965, 119965>>, <<119968, 119969>>, <<119971, 119972>>,
       <<119975, 119976>>, <<119981, 119981>>, <<119994, 119994>>, <<119996, 119996>>,
       <<120004, 120004>>, <<120070, 120070>>, <<120075, 120076>>, <<120085, 120085>>,
       <<120093, 120093>>, <<120122, 120122>>, <<120127, 120127>>, <<120133, 120133>>,
       <<120135, 120137>>, <<120145, 120145>>, <<120486, 120487>>, <<120780, 120781>>,
       <<121484, 121498>>, <<121504, 121504>>, <<121520, 122623>>, <<122655, 122879>>,
       <<122887, 122887>>, <<122905, 122906>>, <<122914, 122914>>, <<122917, 122917>>,
       <<122923, 123135>>, <<123181, 123183>>, <<123198, 123199>>, <<123210, 123213>>,
       <<123216, 123535>>, <<123567, 123583>>, <<123642, 123646>>, <<123648, 124895>>,
       <<124903, 124903>>, <<124908, 124908>>, <<124911, 124911>>, <<124927, 124927>>,
       <<125125, 125126>>, <<125143, 125183>>, <<125260, 125263>>, <<125274, 125277>>,
       <<125280, 126064>>, <<126133, 126208>>, <<126270, 126463>>, <<126468, 126468>>,
       <<126496, 126496>>, <<126499, 126499>>, <<126501, 126502>>, <<126504, 126504>>,
       <<126515, 126515>>, <<126520, 126520>>, <<126522, 126522>>, <<126524, 126529>>,
       <<126531, 126534>>, <<126536, 126536>>, <<126538, 126538>>, <<126540, 126540>>,
       <<126544, 126544>>, <<126547, 126547>>, <<126549, 126550>>, <<126552, 126552>>,
       <<126554, 126554>>, <<126556, 126556>>, <<126558, 126558>>, <<126560, 126560>>,
       <<126563, 126563>>, <<126565, 126566>>, <<126571, 126571>>, <<126579, 126579>>,
       <<126584, 126584>>, <<126589, 126589>>, <<126591, 126591>>, <<126602, 126602>>,
       <<126620, 126624>>, <<126628, 126628>>, <<126634, 126634>>, <<126652, 126703>>,
       <<126706, 126975>>, <<127020, 127023>>, <<127124, 127135>>, <<127151, 127152>>,
       <<127168, 127168>>, <<127184, 127184>>, <<127222, 127231>>, <<127406, 127461>>,
       <<127491, 127503>>, <<127548, 127551>>, <<127561, 127567>>, <<127570, 127583>>,
       <<127590, 127743>>, <<128728, 128732>>, <<128749, 128751>>, <<128765, 128767>>,
       <<128884, 128895>>, <<128985, 128991>>, <<129004, 129007>>, <<129009, 129023>>,
       <<129036, 129039>>, <<129096, 129103>>, <<129114, 129119>>, <<129160, 129167>>,
       <<129198, 129199>>, <<129202, 129279>>, <<129620, 129631>>, <<129646, 129647>>,
       <<129653, 129655>>, <<129661, 129663>>, <<129671, 129679>>, <<129709, 129711>>,
       <<129723, 129727>>, <<129734, 129743>>, <<129754, 129759>>, <<129768, 129775>>,
       <<129783, 129791>>, <<129939, 129939>>, <<129995, 130031>>, <<130042, 131071>>,
       <<173792, 173823>>, <<177977, 177983>>, <<178206, 178207>>, <<183970, 183983>>,
       <<191457, 194559>>, <<195102, 196607>>, <<201547, 917759>>, <<918000, 1114111>> >>

\* cp lies in one of the intervals lo..hi of NonPrintable (binary search)
RECURSIVE InNonPrintable(_, _, _)
InNonPrintable(cp, lo, hi) ==
    IF lo > hi THEN FALSE
    ELSE LET mid == (lo + hi) \div 2
         IN  IF cp < NonPrintable[mid][1] THEN InNonPrintable(cp, lo, mid - 1)
             ELSE IF cp > NonPrintable[mid][2] THEN InNonPrintable(cp, mid + 1, hi)
             ELSE TRUE

\* Py_UNICODE_ISPRINTABLE, for a code point from U+007F on
IsPrintable(cp) == ~InNonPrintable(cp, 1, Len(NonPrintable))

HexLower ==
    <<"0", "1", "2", "3", "4", "5", "6", "7", "8", "9",
      "a", "b", "c", "d", "e", "f">>

\* cp in lower-case hex, on width digits
HexText(cp, width) ==
    [i \in 1..width |-> HexLower[((cp \div (16 ^ (width - i))) % 16) + 1]]

\* repr's escape of a code point that is not written as itself
ReprEscape(cp) ==
    IF cp = 9 THEN <<"\\", "t">>
    ELSE IF cp = 10 THEN <<"\\", "n">>
    ELSE IF cp = 13 THEN <<"\\", "r">>
    ELSE IF cp <= 255 THEN <<"\\", "x">> \o HexText(cp, 2)
    ELSE IF cp <= 65535 THEN <<"\\", "u">> \o HexText(cp, 4)
    ELSE <<"\\", "U">> \o HexText(cp, 8)

\* double quotes when the text holds a ' and no ", single quotes otherwise
ReprQuote(s) ==
    IF (\E i \in 1..Len(s) : s[i] = "'") /\ ~(\E i \in 1..Len(s) : s[i] = "\"")
    THEN "\"" ELSE "'"

\* one character as repr writes it: the quote and the backslash behind a
\* backslash, a character that is not printable as its escape
ReprChar(ch, quote) ==
    LET cp == CodePoint(ch)
    IN  IF ch = quote \/ ch = "\\" THEN <<"\\", ch>>
        ELSE IF cp < 32 \/ cp = 127 THEN ReprEscape(cp)
        ELSE IF cp < 127 THEN <<ch>>
        ELSE IF ~IsPrintable(cp) THEN ReprEscape(cp)
        ELSE <<ch>>

\* the characters lo..hi of s, each as repr writes it
RECURSIVE ReprBody(_, _, _, _)
ReprBody(s, lo, hi, quote) ==
    IF lo > hi THEN <<>>
    ELSE IF lo = hi THEN ReprChar(s[lo], quote)
    ELSE ReprBody(s, lo, (lo + hi) \div 2, quote)
             \o ReprBody(s, ((lo + hi) \div 2) + 1, hi, quote)

\* repr of a str
repr(s) == <<ReprQuote(s)>> \o ReprBody(s, 1, Len(s), ReprQuote(s)) \o <<ReprQuote(s)>>

\* the message shows at most the first 200 characters of repr(s)
InvalidLiteral(s) ==
    Raise("ValueError",
          <<"invalid literal for int() with base 10: ">>
              \o SubSeq(repr(s), 1, Min({200, Len(repr(s))})))

ExceedsLimit(digits) ==
    Raise("ValueError",
          <<"Exceeds the limit (">> \o NatText(MaxStrDigits)
              \o <<" digits) for integer string conversion: value has ">>
              \o NatText(digits)
              \o <<" digits; use sys.set_int_max_str_digits() to increase the limit">>)

\* int(s) of a str: the value, or ValueError
int(s) ==
    LET t    == Strip(s)
        body == LiteralBody(t)
        run  == DigitRun(body)
        v    == DigitsValue(Significant(body), 0)
    IN  IF ~WellFormedRun(body, run) THEN InvalidLiteral(s)
        ELSE IF DigitCount(body, run) > MaxStrDigits
             THEN ExceedsLimit(DigitCount(body, run))
        ELSE IF run < Len(body) THEN InvalidLiteral(s)
        ELSE Return(IF t[1] = "-" THEN 0 - v ELSE v)

\* ------------------------------------------------------ frequency formulas
gsm900_base_arfcn(arfcn) ==
    IF 1 <= arfcn /\ arfcn <= 124 THEN arfcn - 1 ELSE arfcn - 128

calculate_gsm900(arfcn) ==
    LET base_arfcn == gsm900_base_arfcn(arfcn)
    IN  <<880200 + base_arfcn * 200, 925200 + base_arfcn * 200>>

\* variant: the second sub-range uses the first one's start
gsm1800_base_single(arfcn) == arfcn - 512

gsm1800_base_arfcn(arfcn) ==
    IF 512 <= arfcn /\ arfcn <= 885 THEN arfcn - 512 ELSE arfcn - 1024

calculate_gsm1800(arfcn) ==
    LET base_arfcn == gsm1800_base_arfcn(arfcn)
    IN  <<1710000 + base_arfcn * 200, 1805000 + base_arfcn * 200>>

umts2100_base_arfcn(arfcn) == arfcn - 10562

\* variant: the formula steps by the advertised 5 MHz spacing
calculate_umts2100_spacing(arfcn) ==
    LET base_arfcn == umts2100_base_arfcn(arfcn)
    IN  <<1922400 + base_arfcn * 5000, 2112400 + base_arfcn * 5000>>

calculate_umts2100(arfcn) ==
    LET base_arfcn == umts2100_base_arfcn(arfcn)
    IN  <<1922400 + base_arfcn * 200, 2112400 + base_arfcn * 200>>

lte1800_base_arfcn(arfcn) == arfcn - 300

\* variant: the GSM step copied into the LTE formula
calculate_lte1800_gsmstep(arfcn) ==
    LET base_arfcn == lte1800_base_arfcn(arfcn)
    IN  <<1710000 + base_arfcn * 200, 1805000 + base_arfcn * 200>>

calculate_lte1800(arfcn) ==
    LET base_arfcn == lte1800_base_arfcn(arfcn)
    IN  <<1710000 + base_arfcn * 100, 1805000 + base_arfcn * 100>>

\* ------------------------------------------------------------ classification
\* variant: the end of a range taken as exclusive
RECURSIVE InRanges_exclusive(_, _, _)
InRanges_exclusive(ranges, j, arfcn) ==
    IF j > Len(ranges) THEN FALSE
    ELSE IF ranges[j][1] <= arfcn /\ arfcn < ranges[j][2] THEN TRUE
    ELSE InRanges_exclusive(ranges, j + 1, arfcn)

\* inner loop: for start, end in ranges
RECURSIVE InRanges(_, _, _)
InRanges(ranges, j, arfcn) ==
    IF j > Len(ranges) THEN FALSE
    ELSE IF ranges[j][1] <= arfcn /\ arfcn <= ranges[j][2] THEN TRUE
    ELSE InRanges(ranges, j + 1, arfcn)

\* outer loop: for network, ranges in items
RECURSIVE ScanNetworks(_, _, _)
ScanNetworks(items, i, arfcn) ==
    IF i > Len(items) THEN None
    ELSE IF InRanges(items[i].ranges, 1, arfcn) THEN items[i].network
    ELSE ScanNetworks(items, i + 1, arfcn)

detect_network(cls, arfcn) == ScanNetworks(cls.NETWORK_RANGES, 1, arfcn)

NotInRangeMessage(arfcn) ==
    <<"ARFCN ">> \o IntText(arfcn) \o <<" is not in any known network range">>

\* variant: no check of the detected network
calculate_frequencies_unchecked(cls, arfcn) ==
    LET network == detect_network(cls, arfcn)
        freqs   == IF network = "GSM 900" THEN calculate_gsm900(arfcn)
                   ELSE IF network = "GSM 1800" THEN calculate_gsm1800(arfcn)
                   ELSE IF network = "UMTS 2100" THEN calculate_umts2100(arfcn)
                   ELSE calculate_lte1800(arfcn)
    IN  Return(<<freqs[1], freqs[2], network>>)

calculate_frequencies(cls, arfcn) ==
    LET network == detect_network(cls, arfcn)
        freqs   == IF network = "GSM 900" THEN calculate_gsm900(arfcn)
                   ELSE IF network = "GSM 1800" THEN calculate_gsm1800(arfcn)
                   ELSE IF network = "UMTS 2100" THEN calculate_umts2100(arfcn)
                   ELSE calculate_lte1800(arfcn)
    IN  IF network = None
        THEN Raise("ValueError", NotInRangeMessage(arfcn))
        ELSE Return(<<freqs[1], freqs[2], network>>)

\* the float n / 2 kHz, exactly: its whole kHz and whether half a kHz more
Half(n) == [khz |-> n \div 2, half |-> n % 2]

\* variant: uplink + downlink / 2
calculate_center_frequency_precedence(uplink, downlink) == Half(2 * uplink + downlink)

\* (uplink + downlink) / 2
calculate_center_frequency(uplink, downlink) == Half(uplink + downlink)

\* variant: a spacing as the default
get_channel_spacing_default02(cls, network) ==
    IF network \in DOMAIN cls.CHANNEL_SPACING
    THEN cls.CHANNEL_SPACING[network] ELSE 200

get_channel_spacing(cls, network) ==
    IF network \in DOMAIN cls.CHANNEL_SPACING
    THEN cls.CHANNEL_SPACING[network] ELSE 0

get_network_capabilities(cls, network) ==
    IF network \in DOMAIN cls.NETWORK_CAPABILITIES
    THEN cls.NETWORK_CAPABILITIES[network] ELSE EmptyDict

\* ------------------------------------------------------------------- state
VARIABLES cls, arfcn, call, ret, entry, labels, messagebox, alive, memo

vars == <<cls, arfcn, call, ret, entry, labels, messagebox, alive, memo>>

\* no message box shown
NoBox == [title |-> "", message |-> <<>>]

\* self.arfcn_entry and the nine labels as create_calculator_frame and
\* create_results_frame build them
create_results_frame ==
    [uplink          |-> <<"Uplink Frequency: -- MHz">>,
     downlink        |-> <<"Downlink Frequency: -- MHz">>,
     center_freq     |-> <<"Center Frequency: -- MHz">>,
     channel_spacing |-> <<"Channel Spacing: -- MHz">>,
     network         |-> <<"Network Type: --">>,
     tech            |-> <<"Technology: --">>,
     data_rate       |-> <<"Max Data Rate: --">>,
     features        |-> <<"Features: --">>,
     modulation      |-> <<"Modulation: --">>]

\* CellularCalculatorGUI after __init__
InitWindow ==
    /\ entry = <<>>
    /\ labels = create_results_frame
    /\ messagebox = NoBox
    /\ alive = TRUE
    /\ memo = <<>>

Channels == (0 - NegDepth)..MaxChannel

\* names a caller may pass to the lookups besides the four standards
OtherNames == {"unknown-standard", "", "gsm 900", None}

NoCall == [op |-> "none", args |-> <<>>, chained |-> FALSE]

Init ==
    /\ cls = NetworkCalculator
    /\ arfcn \in Channels
    /\ call = NoCall
    /\ ret = Return(None)
    /\ InitWindow

DetectNetwork ==
    /\ call' = [op |-> "detect_network", args |-> <<arfcn>>, chained |-> FALSE]
    /\ ret' = Return(detect_network(cls, arfcn))
    /\ UNCHANGED <<cls, arfcn, entry, labels, messagebox, alive, memo>>

CalculateFrequencies ==
    /\ call' = [op |-> "calculate_frequencies", args |-> <<arfcn>>, chained |-> FALSE]
    /\ ret' = calculate_frequencies(cls, arfcn)
    /\ UNCHANGED <<cls, arfcn, entry, labels, messagebox, alive, memo>>

Succeeded == call.op = "calculate_frequencies" /\ ret.kind = "return"

\* center of a returned pair, of one returned frequency with itself, or of
\* frequencies one kHz off the channel grid
CalculateCenterFrequency ==
    /\ Succeeded
    /\ \E uplink, downlink \in {ret.value[1], ret.value[2], ret.value[1] + 1} :
          /\ call' = [op |-> "calculate_center_frequency",
                      args |-> <<uplink, downlink>>, chained |-> TRUE]
          /\ ret' = Return(calculate_center_frequency(uplink, downlink))
    /\ UNCHANGED <<cls, arfcn, entry, labels, messagebox, alive, memo>>

\* the names a lookup can be called with: the one just returned, or any name
LookupNames == {"GSM 900", "GSM 1800", "UMTS 2100", "LTE 1800"} \cup OtherNames

GetChannelSpacing ==
    /\ \/ /\ Succeeded
          /\ call' = [op |-> "get_channel_spacing",
                      args |-> <<ret.value[3]>>, chained |-> TRUE]
          /\ ret' = Return(get_channel_spacing(cls, ret.value[3]))
       \/ \E network \in LookupNames :
          /\ call' = [op |-> "get_channel_spacing",
                      args |-> <<network>>, chained |-> FALSE]
          /\ ret' = Return(get_channel_spacing(cls, network))
    /\ UNCHANGED <<cls, arfcn, entry, labels, messagebox, alive, memo>>

GetNetworkCapabilities ==
    /\ \/ /\ Succeeded
          /\ call' = [op |-> "get_network_capabilities",
                      args |-> <<ret.value[3]>>, chained |-> TRUE]
          /\ ret' = Return(get_network_capabilities(cls, ret.value[3]))
       \/ \E network \in LookupNames :
          /\ call' = [op |-> "get_network_capabilities",
                      args |-> <<network>>, chained |-> FALSE]
          /\ ret' = Return(get_network_capabilities(cls, network))
    /\ UNCHANGED <<cls, arfcn, entry, labels, messagebox, alive, memo>>

Next ==
    \/ DetectNetwork
    \/ CalculateFrequencies
    \/ CalculateCenterFrequency
    \/ GetChannelSpacing
    \/ GetNetworkCapabilities

Spec == Init /\ [][Next]_vars

\* ------------------------------------------------------ the Calculate button
\* dict.get(key, default)
DictGet(d, key, default) == IF key \in DOMAIN d THEN d[key] ELSE default

\* messagebox.showerror(title, message)
showerror(title, message) == [title |-> title, message |-> message]

\* exception classes the clauses "except ValueError" / "except Exception" catch
ExceptionClasses == {"ValueError", "KeyError", "TypeError", "TclError"}

\* the kHz f"{x:.3f}" can show for a float x given by Half: x itself, or
\* either neighbour when x lies halfway (the float is just above or below)
Round3f(x) == IF x.half = 0 THEN {x.khz} ELSE {x.khz, x.khz + 1}

\* the labels after the nine .config(text=...) calls; every number in kHz
ConfiguredLabels(uplink, downlink, center_freq, channel_spacing, network, capabilities) ==
    [uplink          |-> <<"Uplink Frequency: ">> \o Format3f(uplink) \o <<" MHz">>,
     downlink        |-> <<"Downlink Frequency: ">> \o Format3f(downlink) \o <<" MHz">>,
     center_freq     |-> <<"Center Frequency: ">> \o Format3f(center_freq) \o <<" MHz">>,
     channel_spacing |-> <<"Channel Spacing: ">> \o FloatStr(channel_spacing) \o <<" MHz">>,
     network         |-> <<"Network Type: ", network>>,
     tech            |-> <<"Technology: ", DictGet(capabilities, "Technology", "--")>>,
     data_rate       |-> <<"Max Data Rate: ", DictGet(capabilities, "Max Data Rate", "--")>>,
     features        |-> <<"Features: ", DictGet(capabilities, "Features", "--")>>,
     modulation      |-> <<"Modulation: ", DictGet(capabilities, "Modulation", "--")>>]

\* what one run of the handler produced: the box, and the labels it set
Outcome(box, shown) ==
    [box |-> box, display |-> IF box = NoBox THEN <<shown>> ELSE <<>>]

\* observer: one earlier run (text, outcome) and what happened since
Remember(text, outcome) ==
    IF memo = <<>>
    THEN {<<>>, <<[text |-> text, outcome |-> outcome, phase |-> "taken"]>>}
    ELSE {<<[memo[1] EXCEPT !.phase =
                IF text = memo[1].text
                THEN (IF @ = "others" THEN "again" ELSE @)
                ELSE (IF @ = "taken" THEN "others" ELSE @)]>>}

\* variant: a failed run resets the labels
calculate_resets(text) ==
    /\ alive
    /\ entry' = text
    /\ LET parsed == int(text)
           result == IF parsed.kind = "return"
                     THEN calculate_frequencies(cls, parsed.value)
                     ELSE parsed
       IN  IF result.kind = "return"
           THEN LET uplink          == result.value[1]
                    downlink        == result.value[2]
                    network         == result.value[3]
                    center_freq     == calculate_center_frequency(uplink, downlink)
                    channel_spacing == get_channel_spacing(cls, network)
                    capabilities    == get_network_capabilities(cls, network)
                IN  /\ \E shown \in Round3f(center_freq) :
                          labels' = ConfiguredLabels(uplink, downlink, shown,
                                        channel_spacing, network, capabilities)
                    /\ messagebox' = NoBox
                    /\ alive' = TRUE
           ELSE /\ labels' = create_results_frame
                /\ messagebox' =
                      IF result.value.exc = "ValueError"
                      THEN showerror("Error", result.value.msg)
                      ELSE showerror("Error",
                               <<"An unexpected error occurred: ">> \o result.value.msg)
                /\ alive' = (result.value.exc \in ExceptionClasses)
    /\ memo' \in Remember(text, Outcome(messagebox', labels'))
    /\ UNCHANGED <<cls, arfcn, call, ret>>

\* variant: the capability labels are filled once and then kept
calculate_keeps(text) ==
    /\ alive
    /\ entry' = text
    /\ LET parsed == int(text)
           result == IF parsed.kind = "return"
                     THEN calculate_frequencies(cls, parsed.value)
                     ELSE parsed
       IN  IF result.kind = "return"
           THEN LET uplink          == result.value[1]
                    downlink        == result.value[2]
                    network         == result.value[3]
                    center_freq     == calculate_center_frequency(uplink, downlink)
                    channel_spacing == get_channel_spacing(cls, network)
                    capabilities    == get_network_capabilities(cls, network)
                    fresh           == ConfiguredLabels(uplink, downlink, center_freq.khz,
                                           channel_spacing, network, capabilities)
                IN  /\ labels' = IF labels.tech = create_results_frame.tech
                                 THEN fresh
                                 ELSE [fresh EXCEPT !.tech = labels.tech,
                                                    !.data_rate = labels.data_rate,
                                                    !.features = labels.features,
                                                    !.modulation = labels.modulation]
                    /\ messagebox' = NoBox
                    /\ alive' = TRUE
           ELSE /\ labels' = labels
                /\ messagebox' =
                      IF result.value.exc = "ValueError"
                      THEN showerror("Error", result.value.msg)
                      ELSE showerror("Error",
                               <<"An unexpected error occurred: ">> \o result.value.msg)
                /\ alive' = (result.value.exc \in ExceptionClasses)
    /\ memo' \in Remember(text, Outcome(messagebox', labels'))
    /\ UNCHANGED <<cls, arfcn, call, ret>>

\* CellularCalculatorGUI.calculate with text in the entry
calculate(text) ==
    /\ alive
    /\ entry' = text
    /\ LET parsed == int(text)
           result == IF parsed.kind = "return"
                     THEN calculate_frequencies(cls, parsed.value)
                     ELSE parsed
       IN  IF result.kind = "return"
           THEN LET uplink          == result.value[1]
                    downlink        == result.value[2]
                    network         == result.value[3]
                    center_freq     == calculate_center_frequency(uplink, downlink)
                    channel_spacing == get_channel_spacing(cls, network)
                    capabilities    == get_network_capabilities(cls, network)
                IN  /\ \E shown \in Round3f(center_freq) :
                          labels' = ConfiguredLabels(uplink, downlink, shown,
                                        channel_spacing, network, capabilities)
                    /\ messagebox' = NoBox
                    /\ alive' = TRUE
           ELSE /\ labels' = labels
                /\ messagebox' =
                      IF result.value.exc = "ValueError"
                      THEN showerror("Error", result.value.msg)
                      ELSE showerror("Error",
                               <<"An unexpected error occurred: ">> \o result.value.msg)
                /\ alive' = (result.value.exc \in ExceptionClasses)
    /\ memo' \in Remember(text, Outcome(messagebox', labels'))
    /\ UNCHANGED <<cls, arfcn, call, ret>>

\* the first channel of every declared range, the first one past its end,
\* zero and a negative one
GuiChannels ==
    UNION {{rg[1], rg[2] + 1} :
              rg \in UNION {{NETWORK_RANGES[i].ranges[j] :
                                j \in 1..Len(NETWORK_RANGES[i].ranges)} :
                            i \in 1..Len(NETWORK_RANGES)}}
        \cup {0, 0 - 5}

\* texts a user may leave in the entry
Texts ==
    {IntText(c) : c \in GuiChannels}
        \cup { <<>>, <<"a", "b", "c">>, <<"1", "2", ".", "0">>, <<"-", " ", "1">>,
               <<"1", "_", "_", "0">>, <<" ", "1", " ">>, <<"+", "3", "0", "0">>,
               <<"1", "_", "0">>, <<"\t", "3", "0", "0", "\n">>,
               <<"U+FF13", "U+FF10", "U+FF10">>, <<"U+00A0", "U+0661", "U+0662">>,
               <<"1", "2", "'">>, <<"x", "\t", "'", "\"", "\\">>,
               <<"U+2066", "1", "2", "U+E0001">> }

InitGUI ==
    /\ cls = NetworkCalculator
    /\ arfcn = 0
    /\ call = NoCall
    /\ ret = Return(None)
    /\ InitWindow

NextGUI == \E text \in Texts : calculate(text)

SpecGUI == InitGUI /\ [][NextGUI]_vars

TypeOK ==
    /\ cls = NetworkCalculator
    /\ arfcn \in Channels
    /\ ret.kind \in {"return", "raise"}
\* =================================================================== claims
\* The tables as the specification states them (kHz), one row per sub-range.
StatedOrder == <<"GSM 900", "GSM 1800", "UMTS 2100", "LTE 1800">>

StatedRow(n, s, e, u, d, st) ==
    [network |-> n, start |-> s, end |-> e, uplink |-> u, downlink |-> d, step |-> st]

StatedTable ==
    << StatedRow("GSM 900", 1, 124, 880200, 925200, 200),
       StatedRow("GSM 900", 128, 251, 880200, 925200, 200),
       StatedRow("GSM 1800", 512, 885, 1710000, 1805000, 200),
       StatedRow("GSM 1800", 1024, 1885, 1710000, 1805000, 200),
       StatedRow("UMTS 2100", 10562, 10687, 1922400, 2112400, 200),
       StatedRow("LTE 1800", 300, 379, 1710000, 1805000, 100) >>

StatedRows == {StatedTable[k] : k \in 1..Len(StatedTable)}

RowsOf(c) == {r \in StatedRows : r.start <= c /\ c <= r.end}

StatedDomain ==
    (1..124) \cup (128..251) \cup (300..379) \cup (512..885)
        \cup (1024..1885) \cup (10562..10687)

\* the declared (standard, sub-range) positions whose range contains c
DeclaredHits(c) ==
    {p \in (1..Len(cls.NETWORK_RANGES)) \X (1..2) :
        /\ p[2] <= Len(cls.NETWORK_RANGES[p[1]].ranges)
        /\ cls.NETWORK_RANGES[p[1]].ranges[p[2]][1] <= c
        /\ c <= cls.NETWORK_RANGES[p[1]].ranges[p[2]][2]}

Called(op) == call.op = op

\* C1: detect_network returns the first standard, in the order GSM 900,
\* GSM 1800, UMTS 2100, LTE 1800, one of whose inclusive ranges contains the
\* channel; it returns None exactly when no declared range contains it; the
\* channels with a name are exactly the six stated intervals.
C1_ClassifyFirstMatch ==
    Called("detect_network") =>
        LET c        == call.args[1]
            matching == {i \in 1..4 : \E r \in RowsOf(c) : r.network = StatedOrder[i]}
        IN  /\ ret.kind = "return"
            /\ (ret.value = None) <=> (DeclaredHits(c) = {})
            /\ (ret.value # None) <=> (c \in StatedDomain)
            /\ matching # {} => ret.value = StatedOrder[Min(matching)]
            /\ matching = {} => ret.value = None

C1_Witness ==
    /\ Called("detect_network")
    /\ arfcn = 379
    /\ ret.value = "LTE 1800"

\* C2: for an accepted channel calculate_frequencies returns the standard
\* detect_network names, and uplink and downlink are the stated anchors plus
\* (channel - start of its sub-range) stated steps, with a non-negative offset.
C2_FrequencyFormula ==
    Called("calculate_frequencies") =>
        LET c == call.args[1]
        IN  /\ detect_network(cls, c) # None => ret.kind = "return"
            /\ ret.kind = "return" =>
                /\ ret.value[3] = detect_network(cls, c)
                /\ \E r \in RowsOf(c) :
                      /\ r.network = ret.value[3]
                      /\ c - r.start >= 0
                      /\ ret.value[1] = r.uplink + (c - r.start) * r.step
                      /\ ret.value[2] = r.downlink + (c - r.start) * r.step
            /\ c = 1 => ret = Return(<<880200, 925200, "GSM 900">>)
            /\ c = 512 => ret = Return(<<1710000, 1805000, "GSM 1800">>)
            /\ c = 10562 => ret = Return(<<1922400, 2112400, "UMTS 2100">>)
            /\ c = 300 => ret = Return(<<1710000, 1805000, "LTE 1800">>)

C2_Witness ==
    /\ Called("calculate_frequencies")
    /\ arfcn = 1500
    /\ ret = Return(<<1805200, 1900200, "GSM 1800">>)

\* the channel number a not-in-range message carries
CarriedChannel(msg) == int(SubSeq(msg, 2, Len(msg) - 1))

\* C3: outside every declared range calculate_frequencies raises ValueError
\* whose message carries exactly that channel and returns no triple; inside a
\* declared range it never raises.
C3_InvalidChannel ==
    Called("calculate_frequencies") =>
        LET c == call.args[1]
        IN  /\ c \notin StatedDomain =>
                /\ ret.kind = "raise"
                /\ ret.value.exc = "ValueError"
                /\ ret.value.msg[1] = "ARFCN "
                /\ ret.value.msg[Len(ret.value.msg)] = " is not in any known network range"
                /\ CarriedChannel(ret.value.msg) = Return(c)
            /\ c \in StatedDomain => ret.kind = "return"

C3_Witness ==
    /\ Called("calculate_frequencies")
    /\ arfcn = 0 - 5
    /\ ret.kind = "raise"
    /\ ret.value.msg = <<"ARFCN ", "-", "5", " is not in any known network range">>

\* the declared items scanned in the order p
Reordered(items, p) == [i \in 1..Len(items) |-> items[p[i]]]

\* C4: no channel lies in two declared ranges, so at most one standard
\* matches and the result of detect_network is the same for every order in
\* which the standards are scanned.
C4_RangesDisjoint ==
    Called("detect_network") =>
        LET c == call.args[1]
        IN  /\ Cardinality(DeclaredHits(c)) <= 1
            /\ \A p \in Permutations(1..Len(cls.NETWORK_RANGES)) :
                  ScanNetworks(Reordered(cls.NETWORK_RANGES, p), 1, c) = ret.value

C4_Witness ==
    /\ Called("detect_network")
    /\ arfcn = 1200
    /\ ret.value = "GSM 1800"
    /\ Cardinality(DeclaredHits(arfcn)) = 1
LowerBoundaries == {r.start : r \in StatedRows}

UpperBoundaries == {r.end : r \in StatedRows}

Boundaries == LowerBoundaries \cup UpperBoundaries

\* C5 as stated: at every range boundary the standard is the declaring one and
\* uplink and downlink are the anchor or the anchor plus one step.
C5_AsStated ==
    (Called("calculate_frequencies") /\ call.args[1] \in Boundaries) =>
        /\ ret.kind = "return"
        /\ \E r \in RowsOf(call.args[1]) :
              /\ ret.value[3] = r.network
              /\ ret.value[1] \in {r.uplink, r.uplink + r.step}
              /\ ret.value[2] \in {r.downlink, r.downlink + r.step}

\* C5 (amended): at every range boundary the standard is the declaring one;
\* at the first channel of a range uplink and downlink are the exact anchors,
\* at the channel after it the anchors plus one step, and at the last channel
\* of a range the anchors plus (end - start) steps.
C5_BoundaryFrequencies ==
    Called("calculate_frequencies") =>
        \A r \in StatedRows :
            LET c == call.args[1]
            IN  /\ c \in {r.start, r.start + 1, r.end} =>
                    ret.kind = "return" /\ ret.value[3] = r.network
                /\ c = r.start =>
                    ret.value[1] = r.uplink /\ ret.value[2] = r.downlink
                /\ c = r.start + 1 =>
                    /\ ret.value[1] = r.uplink + r.step
                    /\ ret.value[2] = r.downlink + r.step
                /\ c = r.end =>
                    /\ ret.value[1] = r.uplink + (r.end - r.start) * r.step
                    /\ ret.value[2] = r.downlink + (r.end - r.start) * r.step

C5_Witness ==
    /\ Called("calculate_frequencies")
    /\ arfcn = 379
    /\ ret = Return(<<1717900, 1812900, "LTE 1800">>)

\* C6: for adjacent channels of one sub-range uplink and downlink each grow
\* by the formula step (200 kHz, 100 kHz for LTE 1800); get_channel_spacing
\* returns that step for GSM 900, GSM 1800 and LTE 1800 but 5000 kHz for
\* UMTS 2100, whose formula step stays 200 kHz.
C6_StepAndSpacing ==
    (Called("calculate_frequencies") /\ ret.kind = "return") =>
        LET c    == call.args[1]
            next == calculate_frequencies(cls, c + 1)
        IN  /\ \A r \in RowsOf(c) :
                  c + 1 <= r.end =>
                      /\ next.kind = "return"
                      /\ next.value[1] - ret.value[1] = r.step
                      /\ next.value[2] - ret.value[2] = r.step
                      /\ r.step = IF r.network = "LTE 1800" THEN 100 ELSE 200
                      /\ r.network # "UMTS 2100" =>
                            get_channel_spacing(cls, ret.value[3]) = r.step
                      /\ r.network = "UMTS 2100" =>
                            /\ get_channel_spacing(cls, ret.value[3]) = 5000
                            /\ next.value[1] - ret.value[1] = 200
            /\ c = 10562 =>
                  /\ ret = Return(<<1922400, 2112400, "UMTS 2100">>)
                  /\ get_channel_spacing(cls, ret.value[3]) = 5000
            /\ c = 10563 => ret = Return(<<1922600, 2112600, "UMTS 2100">>)

C6_Witness ==
    /\ Called("calculate_frequencies")
    /\ arfcn = 10563
    /\ ret = Return(<<1922600, 2112600, "UMTS 2100">>)
    /\ get_channel_spacing(cls, "UMTS 2100") = 5000

StandardNames == {StatedOrder[i] : i \in 1..4}

StatedSpacing(n) ==
    CASE n = "GSM 900" -> 200
      [] n = "GSM 1800" -> 200
      [] n = "UMTS 2100" -> 5000
      [] n = "LTE 1800" -> 100

\* C8: the lookups never fail; for a name that is not one of the four
\* standards get_channel_spacing returns 0.0 and get_network_capabilities the
\* empty record; for a standard they return its declared non-zero spacing and
\* its record with the four fields; a lookup fed by a successful
\* calculate_frequencies never takes the default.
C8_LookupsTotal ==
    /\ Called("get_channel_spacing") =>
          /\ ret.kind = "return"
          /\ call.args[1] \notin StandardNames => ret.value = 0
          /\ call.args[1] \in StandardNames =>
                ret.value = StatedSpacing(call.args[1]) /\ ret.value # 0
          /\ call.chained => ret.value # 0
    /\ Called("get_network_capabilities") =>
          /\ ret.kind = "return"
          /\ call.args[1] \notin StandardNames => ret.value = EmptyDict
          /\ call.args[1] \in StandardNames =>
                /\ DOMAIN ret.value = {"Technology", "Max Data Rate", "Features", "Modulation"}
                /\ ret.value = cls.NETWORK_CAPABILITIES[call.args[1]]
                /\ ret.value["Technology"] =
                      CASE call.args[1] = "UMTS 2100" -> "3G"
                        [] call.args[1] = "LTE 1800" -> "4G"
                        [] OTHER -> "2G"
          /\ call.chained => ret.value # EmptyDict /\ call.args[1] \in StandardNames
    /\ (detect_network(cls, arfcn) # None) =>
          /\ get_channel_spacing(cls, detect_network(cls, arfcn)) # 0
          /\ get_network_capabilities(cls, detect_network(cls, arfcn)) # EmptyDict

C8_Witness ==
    /\ Called("get_network_capabilities")
    /\ call.args[1] = "unknown-standard"
    /\ ret = Return(EmptyDict)

\* C10: calculate_center_frequency(u, d) is (u + d) / 2, it is u when d = u,
\* and for the pair a valid channel yields it lies strictly between uplink
\* and downlink (channel 1: 880.2, 925.2, center 902.7).
C10_CenterFrequency ==
    Called("calculate_center_frequency") =>
        LET u == call.args[1]
            d == call.args[2]
            r == calculate_frequencies(cls, arfcn)
        IN  /\ ret.kind = "return"
            /\ ret.value.half \in {0, 1}
            /\ 2 * ret.value.khz + ret.value.half = u + d
            /\ u = d => ret.value = [khz |-> u, half |-> 0]
            /\ (u = r.value[1] /\ d = r.value[2]) =>
                  /\ ret.value.half = 0
                  /\ u < ret.value.khz /\ ret.value.khz < d
            /\ (arfcn = 1 /\ u = 880200 /\ d = 925200) =>
                  ret.value = [khz |-> 902700, half |-> 0]

C10_Witness ==
    /\ Called("calculate_center_frequency")
    /\ arfcn = 1
    /\ call.args = <<880200, 925200>>
    /\ ret = Return([khz |-> 902700, half |-> 0])

\* a center off the kHz grid is returned exactly
C10_WitnessHalf ==
    /\ Called("calculate_center_frequency")
    /\ call.args = <<880200, 880201>>
    /\ ret = Return([khz |-> 880200, half |-> 1])

\* the labels the stated tables give for an accepted channel c
StatedDisplay(c) ==
    LET r == CHOOSE x \in RowsOf(c) : TRUE
        u == r.uplink + (c - r.start) * r.step
        d == r.downlink + (c - r.start) * r.step
    IN  ConfiguredLabels(u, d, (u + d) \div 2, StatedSpacing(r.network), r.network,
                         cls.NETWORK_CAPABILITIES[r.network])

Accepted(text) == int(text).kind = "return" /\ int(text).value \in StatedDomain

\* C7: every run of the Calculate handler leaves the window alive; a run on
\* text that is no integer or on a channel outside all ranges shows an error
\* box and leaves all nine labels as they were; a run on a valid channel,
\* from any state (also after failures), shows no box and displays that
\* channel's result.
C7_ErrorsCaught ==
    [][calculate(entry') =>
          LET text == entry'
          IN  /\ alive'
              /\ ~Accepted(text) =>
                    /\ messagebox'.title = "Error"
                    /\ messagebox'.message # <<>>
                    /\ labels' = labels
              /\ (int(text).kind = "return" /\ ~Accepted(text)) =>
                    messagebox'.message = <<"ARFCN ">> \o IntText(int(text).value)
                                            \o <<" is not in any known network range">>
              /\ Accepted(text) =>
                    /\ messagebox' = NoBox
                    /\ labels' = StatedDisplay(int(text).value)]_vars

C7_Witness ==
    /\ alive
    /\ entry = <<"a", "b", "c">>
    /\ messagebox.title = "Error"
    /\ messagebox.message = <<"invalid literal for int() with base 10: ", "'", "a", "b", "c", "'">>
    /\ labels.network = <<"Network Type: ", "UMTS 2100">>
    /\ labels.uplink = <<"Uplink Frequency: ", "1", "9", "2", "2", ".", "4", "0", "0", " MHz">>

\* C9: the tables are never modified; a run of the handler on a text gives
\* the same outcome (error box, or displayed labels) as any earlier run on the
\* same text, whatever ran in between; and the labels after a successful run
\* are those of the entered channel alone.
C9_NoHiddenState ==
    /\ cls = NetworkCalculator
    /\ (memo # <<>> /\ memo[1].text = entry) =>
          Outcome(messagebox, labels) = memo[1].outcome
    /\ (messagebox = NoBox /\ entry # <<>>) =>
          /\ Accepted(entry)
          /\ labels = StatedDisplay(int(entry).value)

C9_Witness ==
    /\ memo # <<>>
    /\ memo[1].phase = "again"
    /\ memo[1].text = <<"3", "0", "0">>
    /\ entry = <<"3", "0", "0">>
    /\ messagebox = NoBox
    /\ labels.tech = <<"Technology: ", "4G">>
    /\ labels.channel_spacing = <<"Channel Spacing: ", "0", ".", "1", " MHz">>
====
